---- MODULE Spec2Model ----
(***************************************************************************)
(* Shot synchronisation and acceptance logic of e6-daq-deploy.py.          *)
(*                                                                         *)
(* Four handlers keep per-stream arrival logs: JkamH5FileHandler (the      *)
(* reference stream), BinFileHandler (counter/FPGA), GageScopeH5File-      *)
(* Handler (digitizer) and RedPitayaFileHandler (lock log).  Each          *)
(* process_file call is one atomic action: the GUI dispatches files one    *)
(* at a time from a single event loop.                                     *)
(*                                                                         *)
(* File creation times are integers here; a period estimate, a quotient    *)
(* in the source, is kept as an exact fraction [num, den] with den > 0,    *)
(* and every comparison against a fraction of a period is cross-           *)
(* multiplied.  Within the bounds below no comparison falls on its         *)
(* boundary except with both sides 0, so the source's floating-point       *)
(* comparisons decide as the exact ones do.  Shot indices are 0-based as   *)
(* in the source; TLA+ sequences are 1-based, so shot k lives at position  *)
(* k + 1.  Every arrival modelled is a new, readable file.                 *)
(***************************************************************************)
EXTENDS Integers, Sequences, FiniteSets, TLC

\* Bounds of the model.
MaxTime == 1
MaxArrivals == 4
MaxRows == 1

Times == 0..MaxTime

VARIABLES jkam, fpga, gage, rp, stdout, files, stream_processed_files, stream_timer

vars == <<jkam, fpga, gage, rp, stdout, files, stream_processed_files, stream_timer>>

----------------------------------------------------------------------------
\* Arithmetic helpers.

Abs(x) == IF x < 0 THEN -x ELSE x

Max(a, b) == IF a >= b THEN a ELSE b

\* A period estimate of zero.
ZeroGap == [num |-> 0, den |-> 1]

\* np.min over a non-empty sequence.
NpMin(s) == CHOOSE m \in {s[i] : i \in 1..Len(s)} : \A i \in 1..Len(s) : m <= s[i]

\* np.argmin: the first (0-based) index holding the minimum.
NpArgmin(s) ==
    (CHOOSE i \in 1..Len(s) :
        /\ s[i] = NpMin(s)
        /\ \A h \in 1..(i - 1) : s[h] # NpMin(s)) - 1

\* np.abs(ctimes - t) elementwise.
TimeDiffs(ctimes, t) == [i \in 1..Len(ctimes) |-> Abs(ctimes[i] - t)]

\* min_diff <= 0.3 * avg_time_gap, with avg_time_gap = gap.num / gap.den.
WithinTolerance(min_diff, gap) == 10 * min_diff * gap.den <= 3 * gap.num

\* shot_num in jkam_time_temp_dict and shot_num in jkam_space_dict.
InJkamDicts(j, shot_num) ==
    /\ shot_num < Len(j.time_temp_dict)
    /\ shot_num < Len(j.shots_dict)

\* final_accepted padded with False up to num_shots.
PadAccepted(final_accepted, num_shots) ==
    [k \in 1..num_shots |->
        IF k <= Len(final_accepted) THEN final_accepted[k] ELSE FALSE]

\* A cumulative loop that carries the running count through a rejected shot
\* instead of writing 0.
RECURSIVE CumulativeLoopCarry(_, _, _, _, _)
CumulativeLoopCarry(mask, shot_num, cumulative_data, current_count, highest_count) ==
    IF shot_num >= Len(mask)
    THEN [cumulative_data |-> cumulative_data, highest_count |-> highest_count]
    ELSE IF mask[shot_num + 1]
         THEN LET cnt == IF cumulative_data = <<>>
                            \/ cumulative_data[Len(cumulative_data)] = 0
                         THEN highest_count + 1
                         ELSE current_count + 1
              IN CumulativeLoopCarry(mask, shot_num + 1, Append(cumulative_data, cnt),
                                     cnt, Max(highest_count, cnt))
         ELSE CumulativeLoopCarry(mask, shot_num + 1,
                                  Append(cumulative_data, current_count),
                                  current_count, highest_count)

\* A cumulative loop that starts over at 1 after a rejected shot instead of
\* continuing from highest_count.
RECURSIVE CumulativeLoopRestart(_, _, _, _, _)
CumulativeLoopRestart(mask, shot_num, cumulative_data, current_count, highest_count) ==
    IF shot_num >= Len(mask)
    THEN [cumulative_data |-> cumulative_data, highest_count |-> highest_count]
    ELSE IF mask[shot_num + 1]
         THEN LET cnt == IF cumulative_data = <<>>
                            \/ cumulative_data[Len(cumulative_data)] = 0
                         THEN 1
                         ELSE current_count + 1
              IN CumulativeLoopRestart(mask, shot_num + 1, Append(cumulative_data, cnt),
                                       cnt, Max(highest_count, cnt))
         ELSE CumulativeLoopRestart(mask, shot_num + 1, Append(cumulative_data, 0),
                                    current_count, highest_count)

\* The two-pass cumulative loop of the counter and digitizer handlers:
\* returns the series and the final highest_count.
RECURSIVE CumulativeLoop(_, _, _, _, _)
CumulativeLoop(mask, shot_num, cumulative_data, current_count, highest_count) ==
    IF shot_num >= Len(mask)
    THEN [cumulative_data |-> cumulative_data, highest_count |-> highest_count]
    ELSE IF mask[shot_num + 1]
         THEN LET cnt == IF cumulative_data = <<>>
                            \/ cumulative_data[Len(cumulative_data)] = 0
                         THEN highest_count + 1
                         ELSE current_count + 1
              IN CumulativeLoop(mask, shot_num + 1, Append(cumulative_data, cnt),
                                cnt, Max(highest_count, cnt))
         ELSE CumulativeLoop(mask, shot_num + 1, Append(cumulative_data, 0),
                             current_count, highest_count)

----------------------------------------------------------------------------
\* JkamH5FileHandler.  start_time is None before the first file: -1 here,
\* a value no creation time takes.

JkamInit ==
    [jkam_creation_time_array |-> <<>>,
     shots_dict |-> <<>>,
     time_temp_dict |-> <<>>,
     shots_num |-> 0,
     last_passed_idx |-> 0,
     start_time |-> -1,
     cumulative_data |-> <<>>,
     avg_time_gap |-> ZeroGap]

\* jkam_avg_time_gap = abs((time_temp - start_time) / shots_num)
JkamAvgTimeGap(j, time_temp) ==
    IF j.shots_num = 0 THEN ZeroGap
    ELSE [num |-> Abs(time_temp - j.start_time), den |-> j.shots_num]

\* A spacing check whose boundary is exclusive: a deviation of exactly
\* 0.2 * gap clears space_correct too.
JkamSpaceCorrectStrict(j, time_temp) ==
    IF j.shots_num = 0 THEN TRUE
    ELSE LET gap == JkamAvgTimeGap(j, time_temp)
             prev == j.jkam_creation_time_array[j.shots_num]
         IN ~ (5 * Abs((time_temp - prev) * gap.den - gap.num) >= gap.num)

\* abs(time_temp - previous - gap) > 0.2 * gap clears space_correct.
JkamSpaceCorrect(j, time_temp) ==
    IF j.shots_num = 0 THEN TRUE
    ELSE LET gap == JkamAvgTimeGap(j, time_temp)
             prev == j.jkam_creation_time_array[j.shots_num]
         IN ~ (5 * Abs((time_temp - prev) * gap.den - gap.num) > gap.num)

\* A running series that continues from the previous shot instead of the
\* last space-correct one.
JkamNewValPrevious(j, space_correct) ==
    IF j.shots_num = 0 THEN 1
    ELSE IF space_correct
         THEN IF j.cumulative_data # <<>>
              THEN j.cumulative_data[Len(j.cumulative_data)] + 1
              ELSE 1
         ELSE 0

\* The running series of the reference stream.
JkamNewVal(j, space_correct) ==
    IF j.shots_num = 0 THEN 1
    ELSE IF space_correct
         THEN IF j.cumulative_data # <<>>
              THEN j.cumulative_data[j.last_passed_idx + 1] + 1
              ELSE 1
         ELSE 0

\* A process_file that flags every stored shot again with the new period.
jkam_process_file_reflag(j, file_ctime) ==
    LET space_correct == JkamSpaceCorrect(j, file_ctime)
        gap == JkamAvgTimeGap(j, file_ctime)
        times == Append(j.jkam_creation_time_array, file_ctime)
    IN [jkam_creation_time_array |-> times,
        shots_dict |-> [k \in 1..Len(times) |->
                           \/ k = 1
                           \/ ~ (5 * Abs((times[k] - times[k - 1]) * gap.den - gap.num)
                                   > gap.num)],
        time_temp_dict |-> Append(j.time_temp_dict, file_ctime),
        shots_num |-> j.shots_num + 1,
        last_passed_idx |-> IF space_correct THEN j.shots_num ELSE j.last_passed_idx,
        start_time |-> IF j.shots_num = 0 THEN file_ctime ELSE j.start_time,
        cumulative_data |-> Append(j.cumulative_data, JkamNewVal(j, space_correct)),
        avg_time_gap |-> gap]

jkam_process_file(j, file_ctime) ==
    LET space_correct == JkamSpaceCorrect(j, file_ctime)
    IN [jkam_creation_time_array |-> Append(j.jkam_creation_time_array, file_ctime),
        shots_dict |-> Append(j.shots_dict, space_correct),
        time_temp_dict |-> Append(j.time_temp_dict, file_ctime),
        shots_num |-> j.shots_num + 1,
        last_passed_idx |-> IF space_correct THEN j.shots_num ELSE j.last_passed_idx,
        start_time |-> IF j.shots_num = 0 THEN file_ctime ELSE j.start_time,
        cumulative_data |-> Append(j.cumulative_data, JkamNewVal(j, space_correct)),
        avg_time_gap |-> JkamAvgTimeGap(j, file_ctime)]

----------------------------------------------------------------------------
\* BinFileHandler.

BinInit ==
    [fpga_creation_time_array |-> <<>>,
     mask_valid_data |-> <<>>,
     jkam_fpga_matchlist |-> <<>>,
     color_array |-> <<>>,
     cumulative_data |-> <<>>,
     highest_count |-> 0,
     final_accepted |-> <<>>,
     start_time |-> -1,
     avg_time_gap |-> ZeroGap,
     fpga_error_shots_reported |-> {}]

\* avg_time_gap = abs(abs(last - first) / (num_shots - 1)), 0 for <= 1 shot.
BinAvgTimeGap(ctimes) ==
    IF Len(ctimes) <= 1 THEN ZeroGap
    ELSE [num |-> Abs(ctimes[Len(ctimes)] - ctimes[1]), den |-> Len(ctimes) - 1]

\* A counter rerun that re-evaluates every index, locked or not.
BinLockedNever(final_accepted, shot_num) == FALSE

\* The locked short-circuit at the head of the loop body.
BinLocked(final_accepted, shot_num) == final_accepted[shot_num + 1]

\* A counter loop body that accepts without reading the spacing flag of the
\* reference shot.
BinEvaluateNoSpacing(ctimes, gap, j, shot_num) ==
    IF InJkamDicts(j, shot_num)
    THEN LET jkam_time == j.time_temp_dict[shot_num + 1]
         IN IF gap.num = 0
            THEN [accept |-> TRUE, match |-> shot_num, error |-> FALSE]
            ELSE LET time_diffs == TimeDiffs(ctimes, jkam_time)
                     ok == WithinTolerance(NpMin(time_diffs), gap)
                 IN [accept |-> ok,
                     match |-> IF ok THEN NpArgmin(time_diffs) ELSE -1,
                     error |-> ~ok]
    ELSE [accept |-> FALSE, match |-> -1, error |-> FALSE]

\* A counter loop body that measures the distance from the shot's own
\* creation time only.
BinEvaluateOwnTime(ctimes, gap, j, shot_num) ==
    IF InJkamDicts(j, shot_num)
    THEN LET jkam_time == j.time_temp_dict[shot_num + 1]
             space_correct == j.shots_dict[shot_num + 1]
         IN IF gap.num = 0
            THEN [accept |-> space_correct,
                  match |-> IF space_correct THEN shot_num ELSE -1,
                  error |-> FALSE]
            ELSE LET ok == WithinTolerance(Abs(ctimes[shot_num + 1] - jkam_time), gap)
                             /\ space_correct
                 IN [accept |-> ok,
                     match |-> IF ok THEN shot_num ELSE -1,
                     error |-> ~ok]
    ELSE [accept |-> FALSE, match |-> -1, error |-> FALSE]

\* A counter loop body that, while the stream's own period is 0, checks the
\* distance of the shot against the reference period.
BinEvaluateReferenceWindow(ctimes, gap, j, shot_num) ==
    IF InJkamDicts(j, shot_num)
    THEN LET jkam_time == j.time_temp_dict[shot_num + 1]
             space_correct == j.shots_dict[shot_num + 1]
         IN IF gap.num = 0
            THEN LET ok == space_correct
                           /\ WithinTolerance(Abs(ctimes[shot_num + 1] - jkam_time),
                                              j.avg_time_gap)
                 IN [accept |-> ok,
                     match |-> IF ok THEN shot_num ELSE -1,
                     error |-> FALSE]
            ELSE LET time_diffs == TimeDiffs(ctimes, jkam_time)
                     ok == WithinTolerance(NpMin(time_diffs), gap) /\ space_correct
                 IN [accept |-> ok,
                     match |-> IF ok THEN NpArgmin(time_diffs) ELSE -1,
                     error |-> ~ok]
    ELSE [accept |-> FALSE, match |-> -1, error |-> FALSE]

\* One iteration of the acceptance loop for an index that is not locked:
\* the acceptance decision, the match written and whether the distance
\* branch rejected (the branch that prints).
BinEvaluate(ctimes, gap, j, shot_num) ==
    IF InJkamDicts(j, shot_num)
    THEN LET jkam_time == j.time_temp_dict[shot_num + 1]
             space_correct == j.shots_dict[shot_num + 1]
         IN IF gap.num = 0
            THEN [accept |-> space_correct,
                  match |-> IF space_correct THEN shot_num ELSE -1,
                  error |-> FALSE]
            ELSE LET time_diffs == TimeDiffs(ctimes, jkam_time)
                     ok == WithinTolerance(NpMin(time_diffs), gap) /\ space_correct
                 IN [accept |-> ok,
                     match |-> IF ok THEN NpArgmin(time_diffs) ELSE -1,
                     error |-> ~ok]
    ELSE [accept |-> FALSE, match |-> -1, error |-> FALSE]

\* The shots whose "FPGA error at shot" line is printed by this rerun.
BinPrinted(b, j) ==
    LET ctimes == b.fpga_creation_time_array
        fa == PadAccepted(b.final_accepted, Len(ctimes))
    IN {shot_num \in 0..(Len(ctimes) - 1) :
            /\ ~BinLocked(fa, shot_num)
            /\ BinEvaluate(ctimes, BinAvgTimeGap(ctimes), j, shot_num).error
            /\ shot_num \notin b.fpga_error_shots_reported}

rerun_acceptance(b, j) ==
    LET ctimes == b.fpga_creation_time_array
        num_shots == Len(ctimes)
        fa == PadAccepted(b.final_accepted, num_shots)
        gap == BinAvgTimeGap(ctimes)
        mask == [k \in 1..num_shots |->
                    BinLocked(fa, k - 1) \/ BinEvaluate(ctimes, gap, j, k - 1).accept]
        cum == CumulativeLoop(mask, 0, <<>>, 0, 0)
    IN [b EXCEPT
          !.final_accepted = [k \in 1..num_shots |-> fa[k] \/ mask[k]],
          !.avg_time_gap = gap,
          !.mask_valid_data = mask,
          !.jkam_fpga_matchlist =
              [k \in 1..num_shots |->
                  IF BinLocked(fa, k - 1) THEN -1
                  ELSE BinEvaluate(ctimes, gap, j, k - 1).match],
          !.color_array = [k \in 1..num_shots |-> IF mask[k] THEN "g" ELSE "r"],
          !.fpga_error_shots_reported = @ \cup BinPrinted(b, j),
          !.cumulative_data = cum.cumulative_data,
          !.highest_count = cum.highest_count]

bin_process_file(b, j, file_ctime) ==
    rerun_acceptance(
        [b EXCEPT
           !.fpga_creation_time_array = Append(@, file_ctime),
           !.start_time = IF Len(b.fpga_creation_time_array) = 0
                          THEN file_ctime ELSE @],
        j)

----------------------------------------------------------------------------
\* GageScopeH5FileHandler.  highest_count is a local of the rerun; the
\* record keeps the value the last rerun ended with.

GageInit ==
    [gage_creation_time_array |-> <<>>,
     mask_valid_data |-> <<>>,
     jkam_gage_matchlist |-> <<>>,
     color_array |-> <<>>,
     cumulative_data |-> <<>>,
     highest_count |-> 0,
     final_accepted |-> <<>>,
     start_time |-> -1,
     avg_time_gap |-> ZeroGap,
     gage_error_shots_reported |-> {}]

\* avg_time_gap = (last - first) / (num_shots - 1): signed, 0 for <= 1 shot.
GageAvgTimeGap(ctimes) ==
    IF Len(ctimes) <= 1 THEN ZeroGap
    ELSE [num |-> ctimes[Len(ctimes)] - ctimes[1], den |-> Len(ctimes) - 1]

\* A rerun that re-evaluates every index, locked or not.
GageLockedNever(final_accepted, shot_num) == FALSE

\* The locked short-circuit at the head of the loop body.
GageLocked(final_accepted, shot_num) == final_accepted[shot_num + 1]

\* One iteration of the digitizer loop for an index that is not locked.
GageEvaluate(ctimes, gap, j, shot_num) ==
    IF InJkamDicts(j, shot_num)
    THEN LET jkam_time == j.time_temp_dict[shot_num + 1]
             space_correct == j.shots_dict[shot_num + 1]
         IN IF space_correct
            THEN IF gap.num = 0
                 THEN [accept |-> TRUE, match |-> shot_num, error |-> FALSE]
                 ELSE LET time_diffs == TimeDiffs(ctimes, jkam_time)
                          ok == WithinTolerance(NpMin(time_diffs), gap)
                      IN [accept |-> ok,
                          match |-> IF ok THEN NpArgmin(time_diffs) ELSE -1,
                          error |-> ~ok]
            ELSE [accept |-> FALSE, match |-> -1, error |-> FALSE]
    ELSE [accept |-> FALSE, match |-> -1, error |-> FALSE]

\* The shots whose "Gage error at shot" line is printed by this rerun.
GagePrinted(g, j) ==
    LET ctimes == g.gage_creation_time_array
        fa == PadAccepted(g.final_accepted, Len(ctimes))
    IN {shot_num \in 0..(Len(ctimes) - 1) :
            /\ ~GageLocked(fa, shot_num)
            /\ GageEvaluate(ctimes, GageAvgTimeGap(ctimes), j, shot_num).error
            /\ shot_num \notin g.gage_error_shots_reported}

rerun_acceptance_gage(g, j) ==
    LET ctimes == g.gage_creation_time_array
        num_shots == Len(ctimes)
        fa == PadAccepted(g.final_accepted, num_shots)
        gap == GageAvgTimeGap(ctimes)
        mask == [k \in 1..num_shots |->
                    GageLocked(fa, k - 1) \/ GageEvaluate(ctimes, gap, j, k - 1).accept]
        cum == CumulativeLoop(mask, 0, <<>>, 0, 0)
    IN [g EXCEPT
          !.final_accepted = [k \in 1..num_shots |-> fa[k] \/ mask[k]],
          !.avg_time_gap = gap,
          !.mask_valid_data = mask,
          !.jkam_gage_matchlist =
              [k \in 1..num_shots |->
                  IF GageLocked(fa, k - 1) THEN -1
                  ELSE GageEvaluate(ctimes, gap, j, k - 1).match],
          !.color_array = [k \in 1..num_shots |-> IF mask[k] THEN "g" ELSE "r"],
          !.gage_error_shots_reported = @ \cup GagePrinted(g, j),
          !.cumulative_data = cum.cumulative_data,
          !.highest_count = cum.highest_count]

\* A creation time already in gage_creation_time_array is skipped.
gage_process_file(g, j, file_ctime) ==
    IF \E i \in 1..Len(g.gage_creation_time_array) :
          g.gage_creation_time_array[i] = file_ctime
    THEN g
    ELSE rerun_acceptance_gage(
            [g EXCEPT
               !.gage_creation_time_array = Append(@, file_ctime),
               !.start_time = IF Len(g.gage_creation_time_array) = 0
                              THEN file_ctime ELSE @],
            j)

----------------------------------------------------------------------------
\* RedPitayaFileHandler.  An entry of rp_times_list is the first column of
\* the file; None (an empty or unparsable file) is the empty sequence.
\* highest_count is a local of the rerun; the record keeps the value the
\* last rerun ended with.

RpInit ==
    [rp_times_list |-> <<>>,
     mask_valid_data_rp |-> <<>>,
     jkam_rp_matchlist |-> <<>>,
     color_array |-> <<>>,
     cumulative_data |-> <<>>,
     highest_count |-> 0,
     final_accepted |-> <<>>]

RpLocked(final_accepted, shot_num) == final_accepted[shot_num + 1]

\* The reference period read by the lock-log handler.
RpAvgTimeGap(j) == j.avg_time_gap

\* One iteration of the lock-log loop for an index that is not locked.
RpEvaluate(rp_creation_time_array, j, shot_num) ==
    IF rp_creation_time_array = <<>>
    THEN [accept |-> FALSE, match |-> -1, error |-> FALSE]
    ELSE IF ~InJkamDicts(j, shot_num)
    THEN [accept |-> FALSE, match |-> -1, error |-> FALSE]
    ELSE LET time_temp == j.time_temp_dict[shot_num + 1]
             jkam_space_correct == j.shots_dict[shot_num + 1]
             jkam_avg_time_gap == RpAvgTimeGap(j)
             diffs == TimeDiffs(rp_creation_time_array, time_temp)
         IN IF jkam_space_correct
            THEN IF jkam_avg_time_gap.num # 0
                    /\ WithinTolerance(NpMin(diffs), jkam_avg_time_gap)
                 THEN [accept |-> TRUE, match |-> NpArgmin(diffs), error |-> FALSE]
                 ELSE [accept |-> FALSE, match |-> -1, error |-> TRUE]
            ELSE [accept |-> FALSE, match |-> -1, error |-> TRUE]

\* The running streak kept inside the lock-log loop.
RpNextCount(cumulative_data, last_success_count, highest_count) ==
    IF cumulative_data = <<>> \/ cumulative_data[Len(cumulative_data)] = 0
    THEN highest_count + 1
    ELSE last_success_count + 1

\* The single loop of rerun_acceptance_rp, from shot_num on; acc carries
\* the arrays built so far, the two counters and the shots printed.
RECURSIVE RpLoop(_, _, _, _)
RpLoop(r, j, shot_num, acc) ==
    IF shot_num >= Len(r.rp_times_list) THEN acc
    ELSE LET ev == IF RpLocked(acc.final_accepted, shot_num)
                   THEN [accept |-> TRUE, match |-> -1, error |-> FALSE]
                   ELSE RpEvaluate(r.rp_times_list[shot_num + 1], j, shot_num)
             cnt == RpNextCount(acc.cumulative_data, acc.last_success_count,
                                acc.highest_count)
         IN RpLoop(r, j, shot_num + 1,
              IF ev.accept
              THEN [mask_valid_data_rp |-> Append(acc.mask_valid_data_rp, TRUE),
                    jkam_rp_matchlist |-> Append(acc.jkam_rp_matchlist, ev.match),
                    color_array |-> Append(acc.color_array, "g"),
                    cumulative_data |-> Append(acc.cumulative_data, cnt),
                    final_accepted |-> [acc.final_accepted EXCEPT ![shot_num + 1] = TRUE],
                    last_success_count |-> cnt,
                    highest_count |-> Max(acc.highest_count, cnt),
                    printed |-> acc.printed]
              ELSE [mask_valid_data_rp |-> Append(acc.mask_valid_data_rp, FALSE),
                    jkam_rp_matchlist |-> Append(acc.jkam_rp_matchlist, -1),
                    color_array |-> Append(acc.color_array, "r"),
                    cumulative_data |-> Append(acc.cumulative_data, 0),
                    final_accepted |-> acc.final_accepted,
                    last_success_count |-> acc.last_success_count,
                    highest_count |-> acc.highest_count,
                    printed |-> IF ev.error THEN acc.printed \cup {shot_num}
                                ELSE acc.printed])

RpRun(r, j) ==
    RpLoop(r, j, 0,
           [mask_valid_data_rp |-> <<>>,
            jkam_rp_matchlist |-> <<>>,
            color_array |-> <<>>,
            cumulative_data |-> <<>>,
            final_accepted |-> PadAccepted(r.final_accepted, Len(r.rp_times_list)),
            last_success_count |-> 0,
            highest_count |-> 0,
            printed |-> {}])

\* The shots whose "error at" line is printed by this rerun.
RpPrinted(r, j) == RpRun(r, j).printed

rerun_acceptance_rp(r, j) ==
    LET out == RpRun(r, j)
    IN [r EXCEPT
          !.mask_valid_data_rp = out.mask_valid_data_rp,
          !.jkam_rp_matchlist = out.jkam_rp_matchlist,
          !.color_array = out.color_array,
          !.cumulative_data = out.cumulative_data,
          !.highest_count = out.highest_count,
          !.final_accepted = out.final_accepted]

rp_process_file(r, j, rp_creation_time_array) ==
    rerun_acceptance_rp([r EXCEPT !.rp_times_list = Append(@, rp_creation_time_array)], j)

----------------------------------------------------------------------------
\* Printed diagnostics: per secondary stream, how many rejection lines have
\* been printed for each shot index.

StdoutInit == [fpga |-> <<>>, gage |-> <<>>, rp |-> <<>>]

AddPrinted(counts, num_shots, printed) ==
    [k \in 1..num_shots |->
        (IF k <= Len(counts) THEN counts[k] ELSE 0)
        + (IF (k - 1) \in printed THEN 1 ELSE 0)]

----------------------------------------------------------------------------
\* The state machine.

\* The file lists of the handlers: jkam_files, bin_files and rp_files hold
\* the paths of the files each handler has recorded.  Paths are natural
\* numbers, ordered as the path strings sort.
FilesInit == [jkam_files |-> <<>>, bin_files |-> <<>>, rp_files |-> <<>>]

\* The path of a file selected through add_files that was not presented
\* before.  Paths are only compared for equality, so one path that is not in
\* the list stands for all of them.
FreshPath(file_list) == Len(file_list) + 1

Arrivals ==
    Len(jkam.jkam_creation_time_array) + Len(fpga.fpga_creation_time_array)
    + Len(gage.gage_creation_time_array) + Len(rp.rp_times_list)

\* The times of a set in increasing order.
RECURSIVE Ascending(_)
Ascending(S) ==
    IF S = {} THEN <<>>
    ELSE LET m == CHOOSE x \in S : \A y \in S : x <= y
         IN <<m>> \o Ascending(S \ {m})

\* The first column of a Red Pitaya file, the clock of the lock log: up to
\* MaxRows increasing times, or nothing for an empty or unparsable file.
RpColumns == {Ascending(S) : S \in {T \in SUBSET Times : Cardinality(T) <= MaxRows}}

Init ==
    /\ jkam = JkamInit
    /\ fpga = BinInit
    /\ gage = GageInit
    /\ rp = RpInit
    /\ stdout = StdoutInit
    /\ files = FilesInit
    /\ stream_processed_files = {}
    /\ stream_timer = FALSE

JkamArrival ==
    /\ Arrivals < MaxArrivals
    /\ \E file_ctime \in Times : jkam' = jkam_process_file(jkam, file_ctime)
    /\ files' = [files EXCEPT !.jkam_files = Append(@, FreshPath(@))]
    /\ UNCHANGED <<fpga, gage, rp, stdout, stream_processed_files, stream_timer>>

BinArrival ==
    /\ Arrivals < MaxArrivals
    /\ \E file_ctime \in Times :
          LET b == [fpga EXCEPT !.fpga_creation_time_array = Append(@, file_ctime)]
          IN /\ fpga' = bin_process_file(fpga, jkam, file_ctime)
             /\ stdout' = [stdout EXCEPT !.fpga =
                              AddPrinted(@, Len(b.fpga_creation_time_array),
                                         BinPrinted(b, jkam))]
    /\ files' = [files EXCEPT !.bin_files = Append(@, FreshPath(@))]
    /\ UNCHANGED <<jkam, gage, rp, stream_processed_files, stream_timer>>

\* A digitizer arrival that writes its period estimate into the reference
\* handler as well.
GageArrivalWritesPeriod ==
    /\ Arrivals < MaxArrivals
    /\ \E file_ctime \in Times :
          LET g == [gage EXCEPT !.gage_creation_time_array = Append(@, file_ctime)]
          IN /\ gage' = gage_process_file(gage, jkam, file_ctime)
             /\ jkam' = [jkam EXCEPT !.avg_time_gap = gage'.avg_time_gap]
             /\ stdout' = IF gage' = gage THEN stdout
                          ELSE [stdout EXCEPT !.gage =
                                   AddPrinted(@, Len(g.gage_creation_time_array),
                                              GagePrinted(g, jkam))]
    /\ UNCHANGED <<fpga, rp, files, stream_processed_files, stream_timer>>

GageArrival ==
    /\ Arrivals < MaxArrivals
    /\ \E file_ctime \in Times :
          LET g == [gage EXCEPT !.gage_creation_time_array = Append(@, file_ctime)]
          IN /\ gage' = gage_process_file(gage, jkam, file_ctime)
             /\ stdout' = IF gage' = gage THEN stdout
                          ELSE [stdout EXCEPT !.gage =
                                   AddPrinted(@, Len(g.gage_creation_time_array),
                                              GagePrinted(g, jkam))]
    /\ UNCHANGED <<jkam, fpga, rp, files, stream_processed_files, stream_timer>>

RpArrival ==
    /\ Arrivals < MaxArrivals
    /\ \E rp_creation_time_array \in RpColumns :
          LET r == [rp EXCEPT !.rp_times_list = Append(@, rp_creation_time_array)]
          IN /\ rp' = rp_process_file(rp, jkam, rp_creation_time_array)
             /\ stdout' = [stdout EXCEPT !.rp =
                              AddPrinted(@, Len(r.rp_times_list), RpPrinted(r, jkam))]
    /\ files' = [files EXCEPT !.rp_files = Append(@, FreshPath(@))]
    /\ UNCHANGED <<jkam, fpga, gage, stream_processed_files, stream_timer>>

Next ==
    \/ JkamArrival
    \/ BinArrival
    \/ GageArrival
    \/ RpArrival

Spec == Init /\ [][Next]_vars

----------------------------------------------------------------------------
\* The results read per secondary stream and shot index.

Secondary == {"fpga", "gage", "rp"}

NumShots(s) ==
    CASE s = "fpga" -> Len(fpga.fpga_creation_time_array)
      [] s = "gage" -> Len(gage.gage_creation_time_array)
      [] s = "rp" -> Len(rp.rp_times_list)

Shots(s) == 0..(NumShots(s) - 1)

is_accepted(s, k) ==
    CASE s = "fpga" -> fpga.mask_valid_data[k + 1]
      [] s = "gage" -> gage.mask_valid_data[k + 1]
      [] s = "rp" -> rp.mask_valid_data_rp[k + 1]

matched_index(s, k) ==
    CASE s = "fpga" -> fpga.jkam_fpga_matchlist[k + 1]
      [] s = "gage" -> gage.jkam_gage_matchlist[k + 1]
      [] s = "rp" -> rp.jkam_rp_matchlist[k + 1]

cumulative_value(s, k) ==
    CASE s = "fpga" -> fpga.cumulative_data[k + 1]
      [] s = "gage" -> gage.cumulative_data[k + 1]
      [] s = "rp" -> rp.cumulative_data[k + 1]

\* What the loop body decides for shot k of stream s in the current state
\* when k is not locked.
Evaluation(s, k) ==
    CASE s = "fpga" -> BinEvaluate(fpga.fpga_creation_time_array,
                                   BinAvgTimeGap(fpga.fpga_creation_time_array),
                                   jkam, k)
      [] s = "gage" -> GageEvaluate(gage.gage_creation_time_array,
                                    GageAvgTimeGap(gage.gage_creation_time_array),
                                    jkam, k)
      [] s = "rp" -> RpEvaluate(rp.rp_times_list[k + 1], jkam, k)

\* The step is an arrival recorded by stream s.
Arrived(s) == NumShots(s)' = NumShots(s) + 1

JkamArrived == jkam'.shots_num = jkam.shots_num + 1

----------------------------------------------------------------------------
\* C1 (stickiness): for every secondary stream and shot index k, once k is
\* accepted it is accepted after every later arrival of any stream, also
\* when the period has changed so that k would now fail the check.
C1_Stickiness ==
    [][\A s \in Secondary : \A k \in Shots(s) :
          is_accepted(s, k) => is_accepted(s, k)']_vars

\* C1 witness: an accepted counter or digitizer shot that the loop body
\* would reject if it evaluated it again in this state (scenario C).
C1_LockSurvivesRegression ==
    \E s \in {"fpga", "gage"} : \E k \in Shots(s) :
        is_accepted(s, k) /\ ~Evaluation(s, k).accept

\* C2: an accepted index with matched index j* still reports j* after every
\* later arrival.
C2_MatchKept ==
    [][\A s \in Secondary : \A k \in Shots(s) :
          (is_accepted(s, k) /\ matched_index(s, k) # -1)
              => matched_index(s, k)' = matched_index(s, k)]_vars

----------------------------------------------------------------------------
\* Vocabulary of the matching claims.

final_accepted(s) ==
    CASE s = "fpga" -> fpga.final_accepted
      [] s = "gage" -> gage.final_accepted
      [] s = "rp" -> rp.final_accepted

\* Shot k of s was locked before the step.
WasLocked(s, k) == k < Len(final_accepted(s)) /\ final_accepted(s)[k + 1]

\* The timestamps shot k of stream s carries: its creation time, or the
\* rows of the first column of a lock log.
ShotTimes(s, k) ==
    CASE s = "fpga" -> <<fpga.fpga_creation_time_array[k + 1]>>
      [] s = "gage" -> <<gage.gage_creation_time_array[k + 1]>>
      [] s = "rp" -> rp.rp_times_list[k + 1]

\* Shot k carries exactly one timestamp, ShotTime(s, k).
HasTime(s, k) == Len(ShotTimes(s, k)) = 1

ShotTime(s, k) == ShotTimes(s, k)[1]

\* The reference period is defined: at least two reference arrivals and an
\* estimate that is not the sentinel 0.
PeriodDefined == jkam.shots_num >= 2 /\ jkam.avg_time_gap.num # 0

\* Distance of time t to reference shot i.
RefDistance(t, i) == Abs(t - jkam.time_temp_dict[i + 1])

\* The nearest reference shot to time t: the first index at minimum distance.
NearestReference(t) == NpArgmin(TimeDiffs(jkam.time_temp_dict, t))

\* The reference shots within the tolerance window of t that are
\* space-correct.
Candidates(t) ==
    {i \in 0..(jkam.shots_num - 1) :
        /\ WithinTolerance(RefDistance(t, i), jkam.avg_time_gap)
        /\ jkam.shots_dict[i + 1]}

\* The loop body of stream s for shot k with the tolerance window taken
\* from period gap.
EvaluationWith(s, k, gap) ==
    CASE s = "fpga" -> BinEvaluate(fpga.fpga_creation_time_array, gap, jkam, k)
      [] s = "gage" -> GageEvaluate(gage.gage_creation_time_array, gap, jkam, k)
      [] s = "rp" -> RpEvaluate(rp.rp_times_list[k + 1], jkam, k)

----------------------------------------------------------------------------
\* C3: with the reference period defined, an evaluation accepts an unlocked
\* shot k iff the nearest reference shot j* to shot k's own timestamp (first
\* index at minimum distance d) has d <= 0.3 * period and is space-correct.
C3_AcceptIffNearestReference ==
    [][\A s \in Secondary : Arrived(s) =>
          \A k \in Shots(s)' :
              (PeriodDefined /\ ~WasLocked(s, k) /\ HasTime(s, k)')
                  => (is_accepted(s, k)'
                        <=> NearestReference(ShotTime(s, k)') \in Candidates(ShotTime(s, k)'))]_vars

\* C4: a shot accepted by an evaluation with the reference period defined
\* is matched to the nearest reference shot among those within tolerance
\* and space-correct, the smallest index on a tie.
C4_NearestMatch ==
    [][\A s \in Secondary : Arrived(s) =>
          \A k \in Shots(s)' :
              (PeriodDefined /\ ~WasLocked(s, k) /\ HasTime(s, k)' /\ is_accepted(s, k)')
                  => LET t == ShotTime(s, k)'
                         m == matched_index(s, k)'
                     IN /\ m \in Candidates(t)
                        /\ \A i \in Candidates(t) :
                              \/ RefDistance(t, m) < RefDistance(t, i)
                              \/ RefDistance(t, m) = RefDistance(t, i) /\ m <= i]_vars

\* C5: the tolerance window of every secondary stream is 0.3 times the
\* reference period: an evaluation decides as the same loop body does with
\* the reference period in place of the stream's own.
C5_ReferencePeriodWindow ==
    [][\A s \in Secondary : Arrived(s) =>
          \A k \in Shots(s)' :
              (PeriodDefined /\ ~WasLocked(s, k))
                  => (is_accepted(s, k)'
                        <=> EvaluationWith(s, k, jkam.avg_time_gap)'.accept)]_vars

\* C6: with fewer than two reference arrivals, an evaluation accepts an
\* unlocked shot k iff reference shot k exists and is space-correct, and
\* then the match is k.
C6_UndefinedPeriodSameIndex ==
    [][\A s \in Secondary : Arrived(s) =>
          \A k \in Shots(s)' :
              (jkam.shots_num < 2 /\ ~WasLocked(s, k) /\ ShotTimes(s, k)' # <<>>)
                  => /\ is_accepted(s, k)'
                          <=> (InJkamDicts(jkam, k) /\ jkam.shots_dict[k + 1])
                     /\ is_accepted(s, k)' => matched_index(s, k)' = k]_vars

\* C7: a reference arrival re-evaluates the unlocked shots of every
\* secondary stream, so a shot that qualifies once the reference shot is
\* there is accepted by that arrival.
C7_ReferenceArrivalReruns ==
    [][JkamArrived =>
          \A s \in Secondary : \A k \in Shots(s) :
              (~is_accepted(s, k) /\ Evaluation(s, k)'.accept)
                  => is_accepted(s, k)']_vars

\* C8: a shot rejected by an evaluation (no match, or spacing violated) has
\* had its rejection line printed exactly once, and no shot has it twice.
C8_DiagnosticOnce ==
    [][\A s \in Secondary : Arrived(s) =>
          \A k \in Shots(s)' :
              /\ stdout'[s][k + 1] <= 1
              /\ (~is_accepted(s, k)' /\ InJkamDicts(jkam, k) /\ ShotTimes(s, k)' # <<>>)
                    => stdout'[s][k + 1] = 1]_vars

\* C9: within the counter stream and within the digitizer stream, no two
\* accepted shots carry the same matched index.
C9_MatchUnique ==
    \A s \in {"fpga", "gage"} : \A k1, k2 \in Shots(s) :
        (k1 # k2 /\ is_accepted(s, k1) /\ is_accepted(s, k2)
            /\ matched_index(s, k1) # -1)
            => matched_index(s, k1) # matched_index(s, k2)

\* C10 (cumulative consistency): for every stream, the cumulative value is
\* 0 exactly at the shots that are not accepted (not space-correct, for the
\* reference stream), at least 1 elsewhere, and the previous value plus 1
\* next to an accepted predecessor.
C10_CumulativeConsistency ==
    /\ \A s \in Secondary : \A k \in Shots(s) :
          /\ cumulative_value(s, k) = 0 <=> ~is_accepted(s, k)
          /\ is_accepted(s, k) => cumulative_value(s, k) >= 1
          /\ (k > 0 /\ is_accepted(s, k - 1) /\ is_accepted(s, k))
                => cumulative_value(s, k) = cumulative_value(s, k - 1) + 1
    /\ Len(jkam.cumulative_data) = jkam.shots_num
    /\ \A k \in 0..(jkam.shots_num - 1) :
          /\ jkam.cumulative_data[k + 1] = 0 <=> ~jkam.shots_dict[k + 1]
          /\ jkam.shots_dict[k + 1] => jkam.cumulative_data[k + 1] >= 1
          /\ (k > 0 /\ jkam.shots_dict[k] /\ jkam.shots_dict[k + 1])
                => jkam.cumulative_data[k + 1] = jkam.cumulative_data[k] + 1

\* C10 witness: the reference stream in an unbroken run of two, and a
\* secondary stream with a rejected shot right after an accepted one.
C10_RunAndGap ==
    /\ jkam.shots_num >= 2
    /\ jkam.cumulative_data[2] = 2
    /\ \E s \in Secondary : \E k \in Shots(s) :
          /\ k >= 1
          /\ is_accepted(s, k - 1) /\ ~is_accepted(s, k)
          /\ cumulative_value(s, k - 1) = 1 /\ cumulative_value(s, k) = 0

----------------------------------------------------------------------------
\* Scenario runs.  Times are in hundredths of a second.  The reference
\* camera delivers its shots first, each a step after the one before and
\* the first at time 0; then one secondary stream delivers its shots.  A
\* secondary handler reads only the reference handler and itself, so the
\* other two secondary streams stay empty in a run.  Over these times no
\* comparison of the source falls on its boundary, so its floating-point
\* comparisons decide as the exact ones do.

MaxRefShots == 4
MaxSecShots == 3

\* Steps between consecutive reference shots: 1 s, 2.5 s and 4 s.
Steps == {100, 250, 400}

\* Creation times of secondary files: 0.05 s, 1.02 s, 2.10 s and 5 s.
SecTimes == {5, 102, 210, 500}

\* First columns of lock logs: one row at a secondary time, or nothing.
ScenarioColumns == {<<t>> : t \in SecTimes} \cup {<<>>}

\* No secondary stream other than s has delivered a shot.
OnlyStream(s) == \A o \in Secondary \ {s} : NumShots(o) = 0

ScenarioJkamArrival ==
    /\ jkam.shots_num < MaxRefShots
    /\ \A s \in Secondary : NumShots(s) = 0
    /\ \E file_ctime \in
            IF jkam.shots_num = 0 THEN {0}
            ELSE {jkam.jkam_creation_time_array[jkam.shots_num] + d : d \in Steps} :
          jkam' = jkam_process_file(jkam, file_ctime)
    /\ files' = [files EXCEPT !.jkam_files = Append(@, FreshPath(@))]
    /\ UNCHANGED <<fpga, gage, rp, stdout, stream_processed_files, stream_timer>>

ScenarioBinArrival ==
    /\ NumShots("fpga") < MaxSecShots
    /\ OnlyStream("fpga")
    /\ \E file_ctime \in SecTimes :
          LET b == [fpga EXCEPT !.fpga_creation_time_array = Append(@, file_ctime)]
          IN /\ fpga' = bin_process_file(fpga, jkam, file_ctime)
             /\ stdout' = [stdout EXCEPT !.fpga =
                              AddPrinted(@, Len(b.fpga_creation_time_array),
                                         BinPrinted(b, jkam))]
    /\ files' = [files EXCEPT !.bin_files = Append(@, FreshPath(@))]
    /\ UNCHANGED <<jkam, gage, rp, stream_processed_files, stream_timer>>

ScenarioGageArrival ==
    /\ NumShots("gage") < MaxSecShots
    /\ OnlyStream("gage")
    /\ \E file_ctime \in SecTimes :
          LET g == [gage EXCEPT !.gage_creation_time_array = Append(@, file_ctime)]
          IN /\ gage' = gage_process_file(gage, jkam, file_ctime)
             /\ stdout' = IF gage' = gage THEN stdout
                          ELSE [stdout EXCEPT !.gage =
                                   AddPrinted(@, Len(g.gage_creation_time_array),
                                              GagePrinted(g, jkam))]
    /\ UNCHANGED <<jkam, fpga, rp, files, stream_processed_files, stream_timer>>

ScenarioRpArrival ==
    /\ NumShots("rp") < MaxSecShots
    /\ OnlyStream("rp")
    /\ \E rp_creation_time_array \in ScenarioColumns :
          LET r == [rp EXCEPT !.rp_times_list = Append(@, rp_creation_time_array)]
          IN /\ rp' = rp_process_file(rp, jkam, rp_creation_time_array)
             /\ stdout' = [stdout EXCEPT !.rp =
                              AddPrinted(@, Len(r.rp_times_list), RpPrinted(r, jkam))]
    /\ files' = [files EXCEPT !.rp_files = Append(@, FreshPath(@))]
    /\ UNCHANGED <<jkam, fpga, gage, stream_processed_files, stream_timer>>

ScenarioNext ==
    \/ ScenarioJkamArrival
    \/ ScenarioBinArrival
    \/ ScenarioGageArrival
    \/ ScenarioRpArrival

ScenarioSpec == Init /\ [][ScenarioNext]_vars

----------------------------------------------------------------------------
\* Vocabulary of the cumulative claims.

\* The accepted flags of stream s, shot 0 first.
Mask(s) ==
    CASE s = "fpga" -> fpga.mask_valid_data
      [] s = "gage" -> gage.mask_valid_data
      [] s = "rp" -> rp.mask_valid_data_rp

\* The cumulative series of stream s.
Series(s) ==
    CASE s = "fpga" -> fpga.cumulative_data
      [] s = "gage" -> gage.cumulative_data
      [] s = "rp" -> rp.cumulative_data

\* The CumulativeCounter of the design run over flags from index Len(series):
\* an accepted index after a 0 (or index 0) takes record_high + 1, any other
\* accepted index the previous value + 1, a rejected index 0.
RECURSIVE CumulativeCounter(_, _, _)
CumulativeCounter(flags, series, record_high) ==
    IF Len(series) >= Len(flags) THEN series
    ELSE LET i == Len(series) + 1
             new_value == IF ~flags[i] THEN 0
                          ELSE IF i = 1 \/ series[i - 1] = 0 THEN record_high + 1
                          ELSE series[i - 1] + 1
         IN CumulativeCounter(flags, Append(series, new_value),
                              Max(record_high, new_value))

\* The two-pass computation over flags.
TwoPass(flags) == CumulativeLoop(flags, 0, <<>>, 0, 0).cumulative_data

\* The one-pass computation over flags: the lock-log loop run over a log
\* whose accepted shots are locked and whose other shots carry no timestamp.
OnePass(flags) ==
    RpRun([RpInit EXCEPT !.rp_times_list = [k \in 1..Len(flags) |-> <<>>],
                         !.final_accepted = flags],
          JkamInit).cumulative_data

\* C11: after every rerun the cumulative series of each secondary stream is
\* the CumulativeCounter series of its accepted flags from a zero watermark,
\* and the one-pass and the two-pass computation agree on those flags.
C11_SeriesIsCumulativeCounter ==
    \A s \in Secondary :
        /\ Series(s) = CumulativeCounter(Mask(s), <<>>, 0)
        /\ OnePass(Mask(s)) = TwoPass(Mask(s))

\* C11 witness: a stream whose run of accepted shots is broken by a
\* rejected shot and resumes above the watermark.
C11_ResumesAfterGap ==
    \E s \in Secondary :
        /\ Mask(s) = <<TRUE, FALSE, TRUE>>
        /\ Series(s) = <<1, 0, 2>>

----------------------------------------------------------------------------
\* Vocabulary of the scenarios.

\* The creation times recorded by the counter or the digitizer stream.
CreationTimes(s) ==
    CASE s = "fpga" -> fpga.fpga_creation_time_array
      [] s = "gage" -> gage.gage_creation_time_array

\* The matched indices of stream s, shot 0 first.
MatchList(s) ==
    CASE s = "fpga" -> fpga.jkam_fpga_matchlist
      [] s = "gage" -> gage.jkam_gage_matchlist
      [] s = "rp" -> rp.jkam_rp_matchlist

\* C12 (scenario A): after the reference stream received 0.0, 1.0, 2.0, 3.0
\* and the counter or the digitizer stream then received 0.05, 1.02, 2.10,
\* its three shots are accepted, matched to 0, 1, 2 and count 1, 2, 3.
C12_ScenarioA ==
    \A s \in {"fpga", "gage"} :
        (/\ jkam.jkam_creation_time_array = <<0, 100, 200, 300>>
         /\ CreationTimes(s) = <<5, 102, 210>>)
            => /\ Mask(s) = <<TRUE, TRUE, TRUE>>
               /\ MatchList(s) = <<0, 1, 2>>
               /\ Series(s) = <<1, 2, 3>>

\* C13 (scenario B): after the reference stream received 0.0, 1.0, 5.0,
\* reference shot 2 is not space-correct, and no secondary shot whose
\* timestamp is nearest to the reference timestamp 5.0 is accepted,
\* whatever its own index.
C13_ScenarioB ==
    jkam.jkam_creation_time_array = <<0, 100, 500>>
        => /\ ~jkam.shots_dict[3]
           /\ \A s \in Secondary : \A k \in Shots(s) :
                 (HasTime(s, k) /\ NearestReference(ShotTime(s, k)) = 2)
                     => ~is_accepted(s, k)

\* The step records a lock-log artifact with no timestamp.
RpArrivedEmpty ==
    /\ Arrived("rp")
    /\ rp'.rp_times_list[Len(rp'.rp_times_list)] = <<>>

\* C14 (scenario D): a lock-log artifact with no timestamp takes the next
\* shot index, is rejected with cumulative value 0 at its arrival and at
\* every later rerun, and its arrival leaves the acceptance of every other
\* index of the lock-log stream as it was.
C14_EmptyArtifact ==
    [][Arrived("rp") =>
          /\ \A k \in Shots("rp")' :
                rp'.rp_times_list[k + 1] = <<>>
                    => ~is_accepted("rp", k)' /\ cumulative_value("rp", k)' = 0
          /\ RpArrivedEmpty =>
                \A k \in Shots("rp") : is_accepted("rp", k)' = is_accepted("rp", k)]_vars

----------------------------------------------------------------------------
\* Vocabulary of the period claims.

\* The streams that keep a period estimate.
Estimating == {"jkam", "fpga", "gage"}

\* The arrival log of stream s: its creation times in arrival order.
Log(s) ==
    IF s = "jkam" THEN jkam.jkam_creation_time_array ELSE CreationTimes(s)

\* The period estimate stream s holds.
PeriodEstimate(s) ==
    CASE s = "jkam" -> jkam.avg_time_gap
      [] s = "fpga" -> fpga.avg_time_gap
      [] s = "gage" -> gage.avg_time_gap

\* C15: the period estimate of the reference, the counter and the digitizer
\* stream is |last - first| / (count - 1) over the whole log when the log
\* holds two arrivals or more and 0 otherwise; it is never negative.
C15_PeriodEstimate ==
    \A s \in Estimating :
        LET log == Log(s)
            est == PeriodEstimate(s)
        IN /\ est.den > 0
           /\ est.num >= 0
           /\ IF Len(log) <= 1 THEN est.num = 0
              ELSE est.num * (Len(log) - 1) = Abs(log[Len(log)] - log[1]) * est.den

\* C16: reference shot 0 is space-correct, and reference shot i > 0 is
\* space-correct iff |t_i - t_(i-1) - period| <= 0.2 * period, boundary
\* included, with period = |t_i - t_0| / i the estimate over arrivals 0..i;
\* every arrival is stored and flagged so, out of order or not.
C16_SpacingFlags ==
    /\ Len(jkam.time_temp_dict) = jkam.shots_num
    /\ Len(jkam.shots_dict) = jkam.shots_num
    /\ jkam.time_temp_dict = jkam.jkam_creation_time_array
    /\ \A i \in 0..(jkam.shots_num - 1) :
          LET t == jkam.time_temp_dict
          IN jkam.shots_dict[i + 1]
                <=> \/ i = 0
                    \/ 5 * Abs((t[i + 1] - t[i]) * i - Abs(t[i + 1] - t[1]))
                          <= Abs(t[i + 1] - t[1])

\* C16 witness: a reference shot with the timestamp of its predecessor,
\* space-correct on the boundary, followed by a shot that arrives out of
\* order and is flagged not space-correct.
C16_EqualThenOutOfOrder ==
    /\ jkam.shots_num >= 3
    /\ jkam.time_temp_dict[2] = jkam.time_temp_dict[1]
    /\ jkam.shots_dict[2]
    /\ jkam.time_temp_dict[3] < jkam.time_temp_dict[2]
    /\ ~jkam.shots_dict[3]

----------------------------------------------------------------------------
\* The watermark of stream s at the end of its last rerun: highest_count.
record_high(s) ==
    CASE s = "fpga" -> fpga.highest_count
      [] s = "gage" -> gage.highest_count
      [] s = "rp" -> rp.highest_count

----------------------------------------------------------------------------
\* C19: after every reference arrival the cumulative series of the
\* reference stream, built with last_passed_idx, is the CumulativeCounter
\* series of its space-correct flags.
C19_ReferenceSeries ==
    jkam.cumulative_data = CumulativeCounter(jkam.shots_dict, <<>>, 0)

\* C19 witness: a reference run broken by a shot that is not space-correct
\* and resumed by one that is.
C19_ReferenceResumes ==
    /\ jkam.shots_dict = <<TRUE, TRUE, FALSE, TRUE>>
    /\ jkam.cumulative_data = <<1, 2, 0, 3>>
    /\ jkam.last_passed_idx = 3

----------------------------------------------------------------------------
\* C20: the reference log is append-only and its flags are frozen: a
\* reference arrival is stored at the index equal to the number of earlier
\* arrivals, and no arrival of any stream changes the stored timestamp or
\* the space-correct flag of an earlier reference index.
C20_ReferenceLogFrozen ==
    [][/\ \A i \in 0..(jkam.shots_num - 1) :
             /\ jkam'.time_temp_dict[i + 1] = jkam.time_temp_dict[i + 1]
             /\ jkam'.jkam_creation_time_array[i + 1] = jkam.jkam_creation_time_array[i + 1]
             /\ jkam'.shots_dict[i + 1] = jkam.shots_dict[i + 1]
       /\ JkamArrived =>
             /\ Len(jkam'.time_temp_dict) = jkam.shots_num + 1
             /\ Len(jkam'.shots_dict) = jkam.shots_num + 1
       /\ ~JkamArrived => jkam' = jkam]_vars

\* C20 witness: an earlier reference shot whose stored flag is not the one
\* the spacing rule gives with the current period estimate.
C20_FlagOlderThanPeriod ==
    \E i \in 1..(jkam.shots_num - 1) :
        LET t == jkam.time_temp_dict
            gap == jkam.avg_time_gap
        IN jkam.shots_dict[i + 1]
              # ~ (5 * Abs((t[i + 1] - t[i]) * gap.den - gap.num) > gap.num)

----------------------------------------------------------------------------
\* The accepted shots of stream s.
AcceptedShots(s) == {k \in Shots(s) : is_accepted(s, k)}

\* The space-correct shots of the reference stream.
SpaceCorrectShots == {i \in 0..(jkam.shots_num - 1) : jkam.shots_dict[i + 1]}

\* C21: an accepted shot k of a secondary stream has a reference shot at
\* the same index k, and that shot is space-correct; so a secondary stream
\* never has more accepted shots than the reference stream has
\* space-correct ones.
C21_AcceptedHasSpaceCorrectReference ==
    \A s \in Secondary :
        /\ \A k \in AcceptedShots(s) : InJkamDicts(jkam, k) /\ jkam.shots_dict[k + 1]
        /\ AcceptedShots(s) \subseteq SpaceCorrectShots
        /\ Cardinality(AcceptedShots(s)) <= Cardinality(SpaceCorrectShots)

\* C21 witness: a secondary stream with an accepted shot and with a
\* rejected shot whose reference shot exists and is not space-correct.
C21_RejectedBySpacingFlag ==
    \E s \in Secondary :
        /\ AcceptedShots(s) # {}
        /\ \E k \in Shots(s) \ AcceptedShots(s) :
              InJkamDicts(jkam, k) /\ ~jkam.shots_dict[k + 1]

----------------------------------------------------------------------------
\* The secondary indices of stream s whose timestamp lies within 0.3 times
\* the stream's own period of the timestamp of reference shot k.
NearReference(s, k) ==
    {i \in 0..(Len(Log(s)) - 1) :
        10 * Abs(Log(s)[i + 1] - jkam.time_temp_dict[k + 1]) * PeriodEstimate(s).den
            <= 3 * PeriodEstimate(s).num}

\* The secondary indices of stream s whose timestamp is nearest to the
\* timestamp of reference shot k.
NearestToReference(s, k) ==
    {i \in 0..(Len(Log(s)) - 1) :
        \A h \in 0..(Len(Log(s)) - 1) :
            Abs(Log(s)[i + 1] - jkam.time_temp_dict[k + 1])
                <= Abs(Log(s)[h + 1] - jkam.time_temp_dict[k + 1])}

----------------------------------------------------------------------------
----------------------------------------------------------------------------
\* Replays of the recorded arrivals in the order "reference first": the
\* handler of a secondary stream fed its own log from arrival n on, against
\* the reference handler as it is after all its arrivals.

RECURSIVE ReplayBin(_, _, _)
ReplayBin(log, n, b) ==
    IF n > Len(log) THEN b
    ELSE ReplayBin(log, n + 1, bin_process_file(b, jkam, log[n]))

RECURSIVE ReplayGage(_, _, _)
ReplayGage(log, n, g) ==
    IF n > Len(log) THEN g
    ELSE ReplayGage(log, n + 1, gage_process_file(g, jkam, log[n]))

RECURSIVE ReplayRp(_, _, _)
ReplayRp(log, n, r) ==
    IF n > Len(log) THEN r
    ELSE ReplayRp(log, n + 1, rp_process_file(r, jkam, log[n]))

\* The accepted flags, matched indices and cumulative series of stream s
\* when all reference arrivals are dispatched before its own.
ReferenceFirst(s) ==
    CASE s = "fpga" ->
            LET b == ReplayBin(fpga.fpga_creation_time_array, 1, BinInit)
            IN <<b.mask_valid_data, b.jkam_fpga_matchlist, b.cumulative_data>>
      [] s = "gage" ->
            LET g == ReplayGage(gage.gage_creation_time_array, 1, GageInit)
            IN <<g.mask_valid_data, g.jkam_gage_matchlist, g.cumulative_data>>
      [] s = "rp" ->
            LET r == ReplayRp(rp.rp_times_list, 1, RpInit)
            IN <<r.mask_valid_data_rp, r.jkam_rp_matchlist, r.cumulative_data>>

\* C24: the accepted flags, matched indices and cumulative series of a
\* secondary stream depend only on the arrival sequence of each stream,
\* not on how the sequences interleave: they are the ones of the
\* interleaving that dispatches the reference arrivals first.
C24_InterleavingIndependent ==
    \A s \in Secondary :
        <<Mask(s), MatchList(s), Series(s)>> = ReferenceFirst(s)

----------------------------------------------------------------------------
----------------------------------------------------------------------------
\* The colours of stream s, shot 0 first.
ColorArray(s) ==
    CASE s = "fpga" -> fpga.color_array
      [] s = "gage" -> gage.color_array
      [] s = "rp" -> rp.color_array

\* C26: after every rerun the parallel arrays of a secondary stream are in
\* step: final_accepted, mask_valid_data, the matchlist, color_array and
\* cumulative_data have one entry per recorded arrival, mask_valid_data
\* equals final_accepted, and a shot is coloured "g" iff it is accepted.
C26_ArraysInStep ==
    \A s \in Secondary :
        /\ Len(final_accepted(s)) = NumShots(s)
        /\ Len(Mask(s)) = NumShots(s)
        /\ Len(MatchList(s)) = NumShots(s)
        /\ Len(ColorArray(s)) = NumShots(s)
        /\ Len(Series(s)) = NumShots(s)
        /\ \A k \in Shots(s) :
              /\ Mask(s)[k + 1] = final_accepted(s)[k + 1]
              /\ ColorArray(s)[k + 1] \in {"g", "r"}
              /\ ColorArray(s)[k + 1] = "g" <=> is_accepted(s, k)

\* C26 witness: a stream holding a rejected shot, coloured "r", and an
\* accepted shot, coloured "g", that is kept by its lock only.
C26_LockedAndRejected ==
    \E s \in {"fpga", "gage"} : \E k1, k2 \in Shots(s) :
        /\ final_accepted(s)[k1 + 1] /\ ColorArray(s)[k1 + 1] = "g"
        /\ ~Evaluation(s, k1).accept
        /\ ~final_accepted(s)[k2 + 1] /\ ColorArray(s)[k2 + 1] = "r"

----------------------------------------------------------------------------
\* The handler of secondary stream s: its arrival log, ledger, matches and
\* cumulative series.
Handler(s) ==
    CASE s = "fpga" -> fpga
      [] s = "gage" -> gage
      [] s = "rp" -> rp

----------------------------------------------------------------------------
\* Files and streaming.  A file is a path (a natural number, ordered as the
\* path strings sort), the handler its name selects (ext), its creation time,
\* whether h5py can open and read it (np.loadtxt can parse it, for a lock
\* log), and the first column of a lock log.

\* At most MaxNew files appear in the directory between two timer ticks.
MaxNew == 2

Directory ==
    { [path |-> 1, ext |-> "jkam", ctime |-> 0, readable |-> TRUE,  column |-> <<>>],
      [path |-> 2, ext |-> "gage", ctime |-> 0, readable |-> TRUE,  column |-> <<>>],
      [path |-> 3, ext |-> "jkam", ctime |-> 1, readable |-> FALSE, column |-> <<>>],
      [path |-> 4, ext |-> "gage", ctime |-> 0, readable |-> TRUE,  column |-> <<>>],
      [path |-> 5, ext |-> "bin",  ctime |-> 1, readable |-> TRUE,  column |-> <<>>],
      [path |-> 6, ext |-> "gage", ctime |-> 1, readable |-> FALSE, column |-> <<>>],
      [path |-> 7, ext |-> "jkam", ctime |-> 1, readable |-> TRUE,  column |-> <<>>],
      [path |-> 8, ext |-> "txt",  ctime |-> 1, readable |-> TRUE,  column |-> <<0>>] }

\* The elements of a list.
Elements(list) == {list[i] : i \in 1..Len(list)}

\* The state of the window: the four handlers, what they printed, their file
\* lists and the files the running stream session has dispatched.
Gui ==
    [jkam |-> jkam, fpga |-> fpga, gage |-> gage, rp |-> rp, stdout |-> stdout,
     files |-> files, stream_processed_files |-> stream_processed_files]

\* JkamH5FileHandler.process_file without the check that the file opens.
JkamProcessNoOpenCheck(G, file) ==
    IF file.path \in Elements(G.files.jkam_files) THEN G
    ELSE [G EXCEPT !.jkam = jkam_process_file(@, file.ctime),
                   !.files.jkam_files = Append(@, file.path)]

\* JkamH5FileHandler.process_file on a file: a path already in jkam_files
\* and a file that does not open return before anything is recorded.
JkamProcess(G, file) ==
    IF file.path \in Elements(G.files.jkam_files) THEN G
    ELSE IF ~file.readable THEN G
    ELSE [G EXCEPT !.jkam = jkam_process_file(@, file.ctime),
                   !.files.jkam_files = Append(@, file.path)]

\* BinFileHandler.process_file without the test for a path in bin_files.
BinProcessAgain(G, file) ==
    LET b == [G.fpga EXCEPT !.fpga_creation_time_array = Append(@, file.ctime)]
    IN [G EXCEPT !.fpga = bin_process_file(@, G.jkam, file.ctime),
                 !.stdout.fpga = AddPrinted(@, Len(b.fpga_creation_time_array),
                                            BinPrinted(b, G.jkam)),
                 !.files.bin_files = Append(@, file.path)]

\* BinFileHandler.process_file on a file: a path already in bin_files
\* returns at once.
BinProcess(G, file) ==
    IF file.path \in Elements(G.files.bin_files) THEN G
    ELSE LET b == [G.fpga EXCEPT !.fpga_creation_time_array = Append(@, file.ctime)]
         IN [G EXCEPT !.fpga = bin_process_file(@, G.jkam, file.ctime),
                      !.stdout.fpga = AddPrinted(@, Len(b.fpga_creation_time_array),
                                                 BinPrinted(b, G.jkam)),
                      !.files.bin_files = Append(@, file.path)]

\* GageScopeH5FileHandler.process_file on a file: a creation time already
\* in gage_creation_time_array returns at once, and a file whose frames
\* cannot be read raises before anything is appended.
GageProcess(G, file) ==
    IF file.ctime \in Elements(G.gage.gage_creation_time_array) THEN G
    ELSE IF ~file.readable THEN G
    ELSE LET g == [G.gage EXCEPT !.gage_creation_time_array = Append(@, file.ctime)]
         IN [G EXCEPT !.gage = gage_process_file(@, G.jkam, file.ctime),
                      !.stdout.gage = AddPrinted(@, Len(g.gage_creation_time_array),
                                                 GagePrinted(g, G.jkam))]

\* RedPitayaFileHandler.process_file on a file: a path already in rp_files
\* returns at once; a file that does not parse is recorded with None.
RpProcess(G, file) ==
    IF file.path \in Elements(G.files.rp_files) THEN G
    ELSE LET rp_creation_time_array == IF file.readable THEN file.column ELSE <<>>
             r == [G.rp EXCEPT !.rp_times_list = Append(@, rp_creation_time_array)]
         IN [G EXCEPT !.rp = rp_process_file(@, G.jkam, rp_creation_time_array),
                      !.stdout.rp = AddPrinted(@, Len(r.rp_times_list),
                                               RpPrinted(r, G.jkam)),
                      !.files.rp_files = Append(@, file.path)]

process_one_file(G, file) ==
    CASE file.ext = "jkam" -> JkamProcess(G, file)
      [] file.ext = "gage" -> GageProcess(G, file)
      [] file.ext = "bin" -> BinProcess(G, file)
      [] file.ext = "txt" -> RpProcess(G, file)

\* The files of a set in the order of their paths.
RECURSIVE sorted(_)
sorted(S) ==
    IF S = {} THEN <<>>
    ELSE LET f == CHOOSE x \in S : \A y \in S : x.path <= y.path
         IN <<f>> \o sorted(S \ {f})

\* for nf in new_files: process_one_file(nf); stream_processed_files.add(nf)
RECURSIVE DispatchNew(_, _, _)
DispatchNew(G, new_files, n) ==
    IF n > Len(new_files) THEN G
    ELSE DispatchNew(
            [process_one_file(G, new_files[n]) EXCEPT
                !.stream_processed_files = @ \cup {new_files[n].path}],
            new_files, n + 1)

\* new_files = [f for f in folder_files if f not in stream_processed_files]
new_files(G, listing) ==
    sorted({f \in listing : f.path \notin G.stream_processed_files})

\* One timer tick on a directory listing.
check_for_new_files(G, listing) == DispatchNew(G, new_files(G, listing), 1)

start_stream(G) == [G EXCEPT !.stream_processed_files = {}]

\* The next state of the window is G.
Becomes(G) ==
    /\ jkam' = G.jkam
    /\ fpga' = G.fpga
    /\ gage' = G.gage
    /\ rp' = G.rp
    /\ stdout' = G.stdout
    /\ files' = G.files
    /\ stream_processed_files' = G.stream_processed_files

\* add_files with one file of the directory selected.
AddFiles ==
    /\ \E file \in Directory : Becomes(process_one_file(Gui, file))
    /\ UNCHANGED stream_timer

StartStream ==
    /\ Becomes(start_stream(Gui))
    /\ stream_timer' = TRUE

StopStream ==
    /\ stream_timer' = FALSE
    /\ UNCHANGED <<jkam, fpga, gage, rp, stdout, files, stream_processed_files>>

\* The directory listings a timer tick can find: the files dispatched in
\* this session and at most MaxNew others.
Listings ==
    {{f \in Directory : f.path \in stream_processed_files} \cup appeared :
        appeared \in {S \in SUBSET {f \in Directory :
                                        f.path \notin stream_processed_files} :
                          Cardinality(S) <= MaxNew}}

\* The stream timer fires.
CheckForNewFiles ==
    /\ stream_timer
    /\ \E listing \in Listings : Becomes(check_for_new_files(Gui, listing))
    /\ UNCHANGED stream_timer

StreamNext ==
    \/ AddFiles
    \/ StartStream
    \/ StopStream
    \/ CheckForNewFiles

StreamSpec == Init /\ [][StreamNext]_vars

\* The handlers' part of a window state: arrival logs, period estimates,
\* ledgers, matches and cumulative series.
Handlers(G) == <<G.jkam, G.fpga, G.gage, G.rp>>

\* The file is recorded: its path is in the file list of its handler, or,
\* for the digitizer, its creation time is in the arrival log.
Recorded(file) ==
    CASE file.ext = "jkam" -> file.path \in Elements(files.jkam_files)
      [] file.ext = "bin" -> file.path \in Elements(files.bin_files)
      [] file.ext = "txt" -> file.path \in Elements(files.rp_files)
      [] file.ext = "gage" -> file.ctime \in Elements(gage.gage_creation_time_array)

\* C28: presenting a recorded file again changes nothing, and neither does a
\* restarted stream that dispatches recorded files again; a digitizer file
\* whose creation time is already in the log counts as recorded.
C28_RepresentedIsNoOp ==
    /\ \A file \in Directory :
          Recorded(file) => process_one_file(Gui, file) = Gui
    /\ Handlers(check_for_new_files(start_stream(Gui),
                                     {file \in Directory : Recorded(file)}))
          = Handlers(Gui)

\* C28 witness: the stream is running, every stream has a recorded file,
\* and of the two dispatched digitizer files with one creation time a single
\* shot was recorded.
C28_RecordedOnEveryStream ==
    /\ stream_timer
    /\ {2, 4} \subseteq stream_processed_files
    /\ gage.gage_creation_time_array = <<0>>
    /\ \A ext \in {"jkam", "bin", "txt"} :
          \E file \in Directory : file.ext = ext /\ Recorded(file)

\* A reference or digitizer file that cannot be opened or read.
Unreadable(file) == file.ext \in {"jkam", "gage"} /\ ~file.readable

\* C29: a reference or digitizer file that cannot be opened or read leaves
\* the window as it was, is marked processed by the timer tick that finds it
\* and is not dispatched by a later tick of the same session.
C29_UnreadableNotRecorded ==
    /\ \A file \in Directory :
          Unreadable(file) => process_one_file(Gui, file) = Gui
    /\ \A listing \in Listings :
          LET G == check_for_new_files(Gui, listing)
          IN \A file \in listing :
                Unreadable(file) =>
                   /\ file.path \in G.stream_processed_files
                   /\ file.path \notin Elements(G.files.jkam_files)
                   /\ file \notin Elements(new_files(G, Directory))

\* C29 witness: the running stream has dispatched the reference file and the
\* digitizer file that do not open, next to a recorded reference shot; neither
\* is in a file list or in an arrival log.
C29_UnreadableMarkedProcessed ==
    /\ stream_timer
    /\ {3, 6} \subseteq stream_processed_files
    /\ 3 \notin Elements(files.jkam_files)
    /\ 1 \notin Elements(gage.gage_creation_time_array)
    /\ jkam.shots_num >= 1
    /\ NumShots("gage") >= 1
====
